---- MODULE Spec2Model ----
(***************************************************************************)
(* Model of the variant_get compute kernel of parquet-variant-compute     *)
(* (src/parquet-variant-compute/src/variant_get.rs): the vectorized       *)
(* kernel variant_get, which keeps one byte offset and one validity flag  *)
(* per row, and the row-wise kernel variant_get_rowise.                   *)
(*                                                                         *)
(* A value blob is a sequence of encoded nodes; the node at byte offset o *)
(* is blob[o + 1].  A node's children are named by offsets relative to    *)
(* the node's own start, as the kernel adds them to the row's offset.     *)
(* Value blobs are entries of a BinaryArray (32-bit offsets), so every    *)
(* offset inside a blob fits the i32 the kernel stores it in.             *)
(***************************************************************************)
EXTENDS Integers, Sequences, FiniteSets, TLC

\* Largest number of rows of an input column.
MaxRows == 2

\* Largest number of accessors of a path.
MaxPathLen == 3

VARIABLES
    column,     \* the input VariantArray: a sequence of [valid, blob]
    path,       \* GetOptions.path
    as_type,    \* GetOptions.as_type: "None", "UInt64" or another data type
    pc,         \* position inside variant_get: "traverse" or "done"
    step,       \* number of path elements the traversal loop has consumed
    offsets,    \* variant_get's `offsets` vector
    nulls,      \* variant_get's `nulls` vector (TRUE = row still valid)
    decodes,    \* per row, how many times variant_get decoded it
    result,     \* what variant_get returned
    rowResult   \* what variant_get_rowise returned

vars == <<column, path, as_type, pc, step, offsets, nulls, decodes, result, rowResult>>

(***************************************************************************)
(* Variant nodes and blobs                                                 *)
(***************************************************************************)
IntKinds == {"Int8", "Int16", "Int32", "Int64"}

Scalar(k, v) == [kind |-> k, val |-> v, elems |-> <<>>, fields |-> <<>>]

ListNode(es) == [kind |-> "List", val |-> 0, elems |-> es, fields |-> <<>>]

ObjectNode(fs) == [kind |-> "Object", val |-> 0, elems |-> <<>>, fields |-> fs]

FieldEntry(n, o) == [name |-> n, off |-> o]

\* the scalar 1234 appended as an i64
BInt == << Scalar("Int64", 1234) >>

\* a variant null
BNullV == << Scalar("Null", 0) >>

\* an 8-bit integer
BInt8 == << Scalar("Int8", 12) >>

\* the list [10, 20, 30]
BList == << ListNode(<<1, 2, 3>>), Scalar("Int64", 10), Scalar("Int64", 20),
            Scalar("Int64", 30) >>

\* the object {"top_level_field": {"inner_field": 1234}}
BNested == << ObjectNode(<< FieldEntry("top_level_field", 1) >>),
              ObjectNode(<< FieldEntry("inner_field", 1) >>),
              Scalar("Int64", 1234) >>

\* the object {"top_level_field": 1234}
BObj == << ObjectNode(<< FieldEntry("top_level_field", 1) >>), Scalar("Int64", 1234) >>

\* the list ["s", -1 as int64, 70000 as int32]
BMixed == << ListNode(<<1, 2, 3>>), Scalar("String", 0), Scalar("Int64", -1),
             Scalar("Int32", 70000) >>

\* a corrupt blob: the field's value offset points past the end of the blob
BCorrupt == << ObjectNode(<< FieldEntry("top_level_field", 3) >>) >>

Blobs == {BInt, BNullV, BInt8, BList, BNested, BObj, BMixed, BCorrupt}

\* bytes that may lie under a row the null mask marks null
NullRowBlobs == {BInt}

Rows == {[valid |-> TRUE, blob |-> b] : b \in Blobs}
          \cup {[valid |-> FALSE, blob |-> b] : b \in NullRowBlobs}

SeqsUpTo(S, n) == UNION {[1..k -> S] : k \in 0..n}

Columns == SeqsUpTo(Rows, MaxRows)

(***************************************************************************)
(* Paths                                                                   *)
(***************************************************************************)
Field(n) == [kind |-> "Field", name |-> n, index |-> 0]

Index(i) == [kind |-> "Index", name |-> "", index |-> i]

FieldNames == {"top_level_field", "inner_field"}

IndexValues == {1, 5}

PathElements == {Field(n) : n \in FieldNames} \cup {Index(i) : i \in IndexValues}

Paths == SeqsUpTo(PathElements, MaxPathLen)

AsTypes == {"None", "UInt64", "Int32"}

(***************************************************************************)
(* The codec operations the kernel calls                                   *)
(***************************************************************************)
\* VariantArray::value_at_offset: decode the node at a byte offset of a row
value_at_offset(blob, off) ==
    IF off >= 0 /\ off < Len(blob)
    THEN [ok |-> TRUE, node |-> blob[off + 1]]
    ELSE [ok |-> FALSE, node |-> Scalar("Null", 0)]

\* VariantObject::field_offset: Some(offset of the field's value) or None
field_offset(node, name) ==
    IF \E k \in 1..Len(node.fields) : node.fields[k].name = name
    THEN [some |-> TRUE,
          off |-> node.fields[CHOOSE k \in 1..Len(node.fields) :
                                  node.fields[k].name = name].off]
    ELSE [some |-> FALSE, off |-> 0]

\* VariantList::len
list_len(node) == Len(node.elems)

\* VariantList::get_offset, for index < len
get_offset(node, index) == node.elems[index + 1]

\* Variant::get_path: walk the whole path from the node at `off`; None at the
\* first accessor that does not resolve
RECURSIVE get_path_from(_, _, _, _)
get_path_from(blob, off, p, k) ==
    LET v == value_at_offset(blob, off) IN
    IF ~v.ok THEN [err |-> TRUE, some |-> FALSE, node |-> v.node]
    ELSE IF k > Len(p) THEN [err |-> FALSE, some |-> TRUE, node |-> v.node]
    ELSE IF p[k].kind = "Field"
    THEN IF v.node.kind = "Object" /\ field_offset(v.node, p[k].name).some
         THEN get_path_from(blob, off + field_offset(v.node, p[k].name).off, p, k + 1)
         ELSE [err |-> FALSE, some |-> FALSE, node |-> v.node]
    ELSE IF v.node.kind = "List" /\ p[k].index < list_len(v.node)
         THEN get_path_from(blob, off + get_offset(v.node, p[k].index), p, k + 1)
         ELSE [err |-> FALSE, some |-> FALSE, node |-> v.node]

get_path(blob, p) == get_path_from(blob, 0, p, 1)

(***************************************************************************)
(* The primitive builder.  A cell [null, wrap, val] is null, or holds the  *)
(* unsigned 64-bit number wrap * 2^64 + val.  nullbuf tells whether the    *)
(* builder has materialized a null buffer, which finish() hands on.        *)
(***************************************************************************)
NullCell == [null |-> TRUE, wrap |-> 0, val |-> 0]

\* `i as u64` of a 64-bit signed integer
AsU64(i) == [null |-> FALSE, wrap |-> IF i < 0 THEN 1 ELSE 0, val |-> i]

NewBuilder == [cells |-> <<>>, nullbuf |-> FALSE]

append_value(b, c) == [b EXCEPT !.cells = Append(@, c)]

append_null(b) == [cells |-> Append(b.cells, NullCell), nullbuf |-> TRUE]

Pending == [status |-> "pending", error |-> "", cells |-> <<>>, nullbuf |-> FALSE]

Ok(b) == [status |-> "ok", error |-> "", cells |-> b.cells, nullbuf |-> b.nullbuf]

Err(e) == [status |-> "err", error |-> e, cells |-> <<>>, nullbuf |-> FALSE]

(***************************************************************************)
(* variant_get                                                             *)
(***************************************************************************)
\* extract_u64 with the Variant::Null arm lost: every non-Int64 node is appended
\* as the default value instead of a null
extract_u64_no_null_arm(variant, builder) ==
    IF variant.kind = "Int64" THEN append_value(builder, AsU64(variant.val))
    ELSE append_value(builder, AsU64(0))

\* the closure passed to get_top_level_primitive for DataType::UInt64, and
\* the same match inside variant_get_rowise
extract_u64(variant, builder) ==
    IF variant.kind = "Int64" THEN append_value(builder, AsU64(variant.val))
    ELSE IF variant.kind = "Null" THEN append_null(builder)
    ELSE append_null(builder)

\* One iteration of the loop of get_top_level_primitive.
RECURSIVE get_top_level_primitive_from(_, _, _, _, _, _)
get_top_level_primitive_from(va, offs, nls, builder, dec, i) ==
    IF i > Len(va) THEN [ok |-> TRUE, builder |-> builder, decodes |-> dec]
    ELSE IF ~nls[i]
    THEN get_top_level_primitive_from(va, offs, nls, append_null(builder), dec, i + 1)
    ELSE LET v == value_at_offset(va[i].blob, offs[i])
             dec2 == [dec EXCEPT ![i] = @ + 1]
         IN IF ~v.ok THEN [ok |-> FALSE, builder |-> builder, decodes |-> dec2]
            ELSE get_top_level_primitive_from(va, offs, nls,
                                              extract_u64(v.node, builder), dec2, i + 1)

get_top_level_primitive(va, offs, nls, dec) ==
    get_top_level_primitive_from(va, offs, nls, NewBuilder, dec, 1)

\* The body of go_to_object_field's loop for one row.
go_to_object_field_row(blob, name, off, alive) ==
    IF ~alive THEN [err |-> FALSE, off |-> off, alive |-> FALSE, decoded |-> FALSE]
    ELSE LET v == value_at_offset(blob, off) IN
         IF ~v.ok THEN [err |-> TRUE, off |-> off, alive |-> TRUE, decoded |-> TRUE]
         ELSE IF v.node.kind # "Object"
         THEN [err |-> FALSE, off |-> off, alive |-> FALSE, decoded |-> TRUE]
         ELSE LET fo == field_offset(v.node, name)
                  offset == IF fo.some THEN fo.off ELSE 0
              IN [err |-> FALSE, off |-> off + offset, alive |-> TRUE, decoded |-> TRUE]

\* go_to_array_index's loop body without the `if !nulls[i] { continue; }` guard
go_to_array_index_row_no_skip(blob, index, off, alive) ==
    LET v == value_at_offset(blob, off) IN
    IF ~v.ok THEN [err |-> TRUE, off |-> off, alive |-> alive, decoded |-> TRUE]
    ELSE IF v.node.kind # "List"
    THEN [err |-> FALSE, off |-> off, alive |-> FALSE, decoded |-> TRUE]
    ELSE IF index >= list_len(v.node)
    THEN [err |-> FALSE, off |-> off, alive |-> FALSE, decoded |-> TRUE]
    ELSE [err |-> FALSE, off |-> off + get_offset(v.node, index),
          alive |-> TRUE, decoded |-> TRUE]

\* The body of go_to_array_index's loop for one row.
go_to_array_index_row(blob, index, off, alive) ==
    IF ~alive THEN [err |-> FALSE, off |-> off, alive |-> FALSE, decoded |-> FALSE]
    ELSE LET v == value_at_offset(blob, off) IN
         IF ~v.ok THEN [err |-> TRUE, off |-> off, alive |-> TRUE, decoded |-> TRUE]
         ELSE IF v.node.kind # "List"
         THEN [err |-> FALSE, off |-> off, alive |-> FALSE, decoded |-> TRUE]
         ELSE IF index >= list_len(v.node)
         THEN [err |-> FALSE, off |-> off, alive |-> FALSE, decoded |-> TRUE]
         ELSE [err |-> FALSE, off |-> off + get_offset(v.node, index),
               alive |-> TRUE, decoded |-> TRUE]

\* The traversal state after row i's iteration returned r.
AfterRow(st, i, r) ==
    [ok |-> ~r.err,
     offsets |-> [st.offsets EXCEPT ![i] = r.off],
     nulls |-> [st.nulls EXCEPT ![i] = r.alive],
     decodes |-> [st.decodes EXCEPT ![i] = @ + (IF r.decoded THEN 1 ELSE 0)]]

\* go_to_object_field: the loop over the rows; `?` leaves it at the first error
RECURSIVE go_to_object_field(_, _, _, _)
go_to_object_field(va, name, st, i) ==
    IF i > Len(va) THEN st
    ELSE LET st2 == AfterRow(st, i, go_to_object_field_row(va[i].blob, name,
                                                          st.offsets[i], st.nulls[i]))
         IN IF ~st2.ok THEN st2 ELSE go_to_object_field(va, name, st2, i + 1)

\* go_to_array_index: the loop over the rows; `?` leaves it at the first error
RECURSIVE go_to_array_index(_, _, _, _)
go_to_array_index(va, index, st, i) ==
    IF i > Len(va) THEN st
    ELSE LET st2 == AfterRow(st, i, go_to_array_index_row(va[i].blob, index,
                                                         st.offsets[i], st.nulls[i]))
         IN IF ~st2.ok THEN st2 ELSE go_to_array_index(va, index, st2, i + 1)

\* options.path.0.len().saturating_sub(1): how many accessors the loop takes
TakeCount(p) == IF Len(p) = 0 THEN 0 ELSE Len(p) - 1

TraversalState == [ok |-> TRUE, offsets |-> offsets, nulls |-> nulls, decodes |-> decodes]

Init ==
    /\ column \in Columns
    /\ path \in Paths
    /\ as_type \in AsTypes
    /\ pc = "traverse"
    /\ step = 0
    /\ offsets = [i \in 1..Len(column) |-> 0]
    /\ nulls = [i \in 1..Len(column) |-> column[i].valid]
    /\ decodes = [i \in 1..Len(column) |-> 0]
    /\ result = Pending
    /\ rowResult = Pending

\* What a traversal step leaves behind.
Advance(st) ==
    /\ offsets' = st.offsets
    /\ nulls' = st.nulls
    /\ decodes' = st.decodes
    /\ IF st.ok
       THEN /\ step' = step + 1
            /\ UNCHANGED <<pc, result>>
       ELSE /\ pc' = "done"
            /\ result' = Err("Decode")
            /\ UNCHANGED step
    /\ UNCHANGED <<column, path, as_type, rowResult>>

\* the loop of variant_get takes a Field accessor
GoToObjectField ==
    /\ pc = "traverse"
    /\ step < TakeCount(path)
    /\ path[step + 1].kind = "Field"
    /\ Advance(go_to_object_field(column, path[step + 1].name, TraversalState, 1))

\* the loop of variant_get takes an Index accessor
GoToArrayIndex ==
    /\ pc = "traverse"
    /\ step < TakeCount(path)
    /\ path[step + 1].kind = "Index"
    /\ Advance(go_to_array_index(column, path[step + 1].index, TraversalState, 1))

\* options.as_type is None
AsTypeMissing ==
    /\ pc = "traverse"
    /\ step = TakeCount(path)
    /\ as_type = "None"
    /\ pc' = "done"
    /\ result' = Err("NotYetImplemented")
    /\ UNCHANGED <<column, path, as_type, step, offsets, nulls, decodes, rowResult>>

\* DataType::UInt64 => get_top_level_primitive
MaterializeUInt64 ==
    /\ pc = "traverse"
    /\ step = TakeCount(path)
    /\ as_type = "UInt64"
    /\ LET r == get_top_level_primitive(column, offsets, nulls, decodes) IN
         /\ decodes' = r.decodes
         /\ result' = IF r.ok THEN Ok(r.builder) ELSE Err("Decode")
    /\ pc' = "done"
    /\ UNCHANGED <<column, path, as_type, step, offsets, nulls, rowResult>>

\* other_type => Err(NotYetImplemented)
OtherType ==
    /\ pc = "traverse"
    /\ step = TakeCount(path)
    /\ as_type \notin {"None", "UInt64"}
    /\ pc' = "done"
    /\ result' = Err("NotYetImplemented")
    /\ UNCHANGED <<column, path, as_type, step, offsets, nulls, decodes, rowResult>>

(***************************************************************************)
(* variant_get_rowise                                                      *)
(***************************************************************************)
RECURSIVE rowise_from(_, _, _, _)
rowise_from(va, p, builder, i) ==
    IF i > Len(va) THEN Ok(builder)
    ELSE LET got == get_path(va[i].blob, p) IN
         IF got.err THEN Err("Decode")
         ELSE IF got.some
         THEN rowise_from(va, p, extract_u64(got.node, builder), i + 1)
         ELSE rowise_from(va, p, append_null(builder), i + 1)

variant_get_rowise(va, p, t) ==
    IF t = "None" THEN Err("NotYetImplemented")
    ELSE IF t = "UInt64" THEN rowise_from(va, p, NewBuilder, 1)
    ELSE Err("NotYetImplemented")

\* the same input and options handed to variant_get_rowise
VariantGetRowise ==
    /\ pc = "done"
    /\ rowResult.status = "pending"
    /\ rowResult' = variant_get_rowise(column, path, as_type)
    /\ UNCHANGED <<column, path, as_type, pc, step, offsets, nulls, decodes, result>>

Next ==
    \/ GoToObjectField
    \/ GoToArrayIndex
    \/ AsTypeMissing
    \/ MaterializeUInt64
    \/ OtherType
    \/ VariantGetRowise

Spec == Init /\ [][Next]_vars

(***************************************************************************)
(* Properties                                                              *)
(***************************************************************************)
RowIds == 1..Len(column)

FinishedOkU64 == pc = "done" /\ as_type = "UInt64" /\ result.status = "ok"

\* the first k accessors of the path
Prefix(k) == SubSeq(path, 1, k)

\* what the whole path (or a prefix of it) selects in row i
Resolved(i, p) == get_path(column[i].blob, p)

\* C1: with target type UInt64, variant_get and variant_get_rowise either both
\* fail or both return the same cells, row for row, nulls included.
C1_StrategyEquivalence ==
    (pc = "done" /\ as_type = "UInt64" /\ rowResult.status # "pending") =>
        \/ result.status = "err" /\ rowResult.status = "err"
        \/ /\ result.status = "ok"
           /\ rowResult.status = "ok"
           /\ result.cells = rowResult.cells

\* C2: with a path of at least one accessor and target type UInt64, a non-null
\* row in which the whole path resolves to the 64-bit integer v holds v in the
\* output of variant_get.
C2_LastAccessorApplied ==
    (FinishedOkU64 /\ Len(path) >= 1) =>
        \A i \in RowIds :
            (/\ column[i].valid
             /\ Resolved(i, path).some
             /\ Resolved(i, path).node.kind = "Int64"
             /\ Resolved(i, path).node.val >= 0)
            => result.cells[i] = [null |-> FALSE, wrap |-> 0,
                                  val |-> Resolved(i, path).node.val]

\* C3: without a target type variant_get succeeds and returns a column of the
\* input's length.
C3_VariantOutputSucceeds ==
    (pc = "done" /\ as_type = "None") =>
        result.status = "ok" /\ Len(result.cells) = Len(column)

\* C4: with an empty path and target type UInt64 variant_get succeeds; row i
\* holds v when input row i is the 64-bit integer v >= 0 and is null when input
\* row i is a variant null; when every row is such an integer the output
\* carries no null buffer.
C4_EmptyPathUInt64 ==
    (pc = "done" /\ path = <<>> /\ as_type = "UInt64") =>
        /\ result.status = "ok"
        /\ Len(result.cells) = Len(column)
        /\ \A i \in RowIds :
             LET top == column[i].blob[1] IN
             /\ (column[i].valid /\ top.kind = "Int64" /\ top.val >= 0)
                  => result.cells[i] = [null |-> FALSE, wrap |-> 0, val |-> top.val]
             /\ (column[i].valid /\ top.kind = "Null") => result.cells[i].null
        /\ (\A i \in RowIds : /\ column[i].valid
                              /\ column[i].blob[1].kind = "Int64"
                              /\ column[i].blob[1].val >= 0)
             => (~result.nullbuf /\ \A i \in RowIds : ~result.cells[i].null)

\* C4 at work: the column [1234, variant null] came out as [1234, null].
C4_Witness ==
    /\ pc = "done" /\ path = <<>> /\ as_type = "UInt64"
    /\ column = << [valid |-> TRUE, blob |-> BInt], [valid |-> TRUE, blob |-> BNullV] >>
    /\ result.status = "ok"
    /\ result.cells = << [null |-> FALSE, wrap |-> 0, val |-> 1234], NullCell >>
    /\ result.nullbuf

\* A Field accessor at position k of the path misses in row i: the accessors
\* before it resolve, and the node they select is no object or lacks the name.
FieldMiss(i, k) ==
    /\ path[k].kind = "Field"
    /\ column[i].valid
    /\ Resolved(i, Prefix(k - 1)).some
    /\ \/ Resolved(i, Prefix(k - 1)).node.kind # "Object"
       \/ ~field_offset(Resolved(i, Prefix(k - 1)).node, path[k].name).some

\* C5: a row in which a Field accessor (at any position of the path) meets a
\* list, a scalar or an object lacking the name is null in the output.
C5_FieldMissIsNull ==
    FinishedOkU64 =>
        \A i \in RowIds : \A k \in 1..Len(path) :
            FieldMiss(i, k) => result.cells[i].null

\* An Index accessor at position k of the path misses in row i.
IndexMiss(i, k) ==
    /\ path[k].kind = "Index"
    /\ column[i].valid
    /\ Resolved(i, Prefix(k - 1)).some
    /\ \/ Resolved(i, Prefix(k - 1)).node.kind # "List"
       \/ list_len(Resolved(i, Prefix(k - 1)).node) <= path[k].index

\* C6: a row in which an Index accessor (at any position of the path) meets a
\* non-list node or a list no longer than the position is null in the output.
C6_IndexMissIsNull ==
    FinishedOkU64 =>
        \A i \in RowIds : \A k \in 1..Len(path) :
            IndexMiss(i, k) => result.cells[i].null

\* C7: a successful call returns as many rows as the input has, and row i is
\* null exactly when the input row is null, or the path does not resolve in
\* it, or the value at the end of the path is a variant null or is not of the
\* requested type.
C7_NullMaskExact ==
    FinishedOkU64 =>
        /\ Len(result.cells) = Len(column)
        /\ \A i \in RowIds :
             result.cells[i].null <=>
                \/ ~column[i].valid
                \/ ~Resolved(i, path).some
                \/ Resolved(i, path).node.kind = "Null"
                \/ Resolved(i, path).node.kind # "Int64"

\* C8: with an unsupported target type variant_get returns the 'not yet
\* implemented' failure and has decoded no row.
C8_RejectedAtEntry ==
    (pc = "done" /\ as_type \notin {"None", "UInt64"}) =>
        /\ result = Err("NotYetImplemented")
        /\ \A i \in RowIds : decodes[i] = 0

\* C9: with target type UInt64, a live row whose terminal node is an integer
\* of any width holding v >= 0 has v in the output, in variant_get and in
\* variant_get_rowise.
C9_AnyIntegerWidth ==
    /\ FinishedOkU64 =>
         \A i \in RowIds :
            LET t == value_at_offset(column[i].blob, offsets[i]).node IN
            (nulls[i] /\ t.kind \in IntKinds /\ t.val >= 0)
            => result.cells[i] = [null |-> FALSE, wrap |-> 0, val |-> t.val]
    /\ (as_type = "UInt64" /\ rowResult.status = "ok") =>
         \A i \in RowIds :
            LET g == Resolved(i, path) IN
            (g.some /\ g.node.kind \in IntKinds /\ g.node.val >= 0)
            => rowResult.cells[i] = [null |-> FALSE, wrap |-> 0, val |-> g.node.val]

\* What every step of variant_get keeps for every row.
C10_Step ==
    \A i \in RowIds :
        /\ offsets'[i] >= offsets[i]
        /\ ~nulls[i] => /\ ~nulls'[i]
                        /\ offsets'[i] = offsets[i]
                        /\ decodes'[i] = decodes[i]

\* The traversal state before the first step.
C10_Start ==
    \A i \in RowIds : offsets[i] = 0 /\ decodes[i] = 0 /\ (nulls[i] <=> column[i].valid)

====
